---- MODULE Spec2Model ----
(***************************************************************************)
(* A model of TrashMap (src/src/lib.rs): a separate-chaining hash map      *)
(* whose bucket array is re-sized to the next "prime" when the load        *)
(* factor exceeds 0.75.                                                    *)
(*                                                                         *)
(* A chain (LinkedList<(K, V)>) is a sequence of <<key, value>> pairs,     *)
(* front first.  The bucket array (Vec<Bucket>) is a sequence of chains;   *)
(* Rust's index i is index i + 1 here.                                     *)
(*                                                                         *)
(* K is generic: its Hash implementation is an arbitrary but fixed         *)
(* function of the key.  hashval[k] is the 64-bit value hasher.finish()    *)
(* returns for k; it is chosen arbitrarily in Init and never changes.      *)
(***************************************************************************)
EXTENDS Integers, Sequences, FiniteSets, TLC

\* Bounds of the model.
NumKeys == 3
NumValues == 2
MaxHash == 3
MaxElements == 6

Keys == 1..NumKeys
Values == 1..NumValues
HashVals == 0..MaxHash

\* Option::None of get; no value is 0.
None == 0

\* const TRASH_MAP_START_SIZE: usize = 3;
TRASH_MAP_START_SIZE == 3
\* const TRASH_MAP_LOAD_FACTOR_THRESH: f32 = 0.75;  as the fraction 3 / 4
THRESH_NUM == 3
THRESH_DEN == 4

VARIABLES
    buckets,    \* TrashMap.buckets: the bucket array
    elements,   \* TrashMap.elements: the counter len() returns
    hashval,    \* the key type's hash: key -> hasher.finish()
    last,       \* the last call and what it returned
    shadow,     \* history: key -> value of its last insert, None once removed
    firstIns,   \* history: the present keys, by their current first insertion
    placed,     \* history: the present keys, by when Bucket::insert last
                \* put them into a chain as a new pair (insert or grow)
    scen        \* the test's position: its phase and how many keys it
                \* has inserted (unused outside the test scenario)

vars == <<buckets, elements, hashval, last, shadow, firstIns, placed, scen>>

----------------------------------------------------------------------------
\* Helpers on sequences.

\* The indices of chain whose pair has this key.
Matches(chain, key) == {i \in 1..Len(chain) : chain[i][1] = key}

\* The first index of chain whose pair has this key (the loop's first hit).
FirstMatch(chain, key) ==
    CHOOSE i \in Matches(chain, key) : \A j \in Matches(chain, key) : i <= j

\* seq without every occurrence of x.
Without(seq, x) == SelectSeq(seq, LAMBDA y : y # x)

----------------------------------------------------------------------------
\* Bucket

\* Bucket::insert without the scan for an equal key: every pair is new.
BucketInsertNoOverwrite(chain, key, value) ==
    IF Len(chain) = 0
    THEN Append(chain, <<key, value>>)
    ELSE <<<<key, value>>>> \o chain

\* Bucket::insert with push_back in place of push_front.
BucketInsertPushBack(chain, key, value) ==
    IF Len(chain) = 0
    THEN Append(chain, <<key, value>>)
    ELSE IF Matches(chain, key) # {}
         THEN [chain EXCEPT ![FirstMatch(chain, key)] = <<key, value>>]
         ELSE Append(chain, <<key, value>>)

\* Bucket::insert: push_back on an empty chain; else overwrite the first
\* pair with an equal key in place; else push_front.
BucketInsert(chain, key, value) ==
    IF Len(chain) = 0
    THEN Append(chain, <<key, value>>)
    ELSE IF Matches(chain, key) # {}
         THEN [chain EXCEPT ![FirstMatch(chain, key)] = <<key, value>>]
         ELSE <<<<key, value>>>> \o chain

\* Bucket::get: the value of the first pair with an equal key, or None.
BucketGet(chain, key) ==
    IF Len(chain) = 0
    THEN None
    ELSE IF Matches(chain, key) # {}
         THEN chain[FirstMatch(chain, key)][2]
         ELSE None

\* Bucket::remove that looks at the front of the chain only.
BucketRemoveFrontOnly(chain, key) ==
    IF Len(chain) = 0
    THEN [chain |-> chain, removed |-> FALSE]
    ELSE IF Head(chain)[1] = key
         THEN [chain |-> Tail(chain), removed |-> TRUE]
         ELSE [chain |-> chain, removed |-> FALSE]

\* Bucket::remove without the append of the tail.
BucketRemoveDropsTail(chain, key) ==
    IF Len(chain) = 0
    THEN [chain |-> chain, removed |-> FALSE]
    ELSE IF Matches(chain, key) # {}
         THEN [chain |-> SubSeq(chain, 1, FirstMatch(chain, key) - 1),
               removed |-> TRUE]
         ELSE [chain |-> chain, removed |-> FALSE]

\* Bucket::remove popping the back of the tail, not its front.
BucketRemovePopsBack(chain, key) ==
    IF Len(chain) = 0
    THEN [chain |-> chain, removed |-> FALSE]
    ELSE IF Matches(chain, key) # {}
         THEN [chain |-> SubSeq(chain, 1, Len(chain) - 1), removed |-> TRUE]
         ELSE [chain |-> chain, removed |-> FALSE]

\* Bucket::remove: split_off at the first pair with an equal key, pop the
\* tail's front, append the tail back.
BucketRemove(chain, key) ==
    IF Len(chain) = 0
    THEN [chain |-> chain, removed |-> FALSE]
    ELSE IF Matches(chain, key) # {}
         THEN LET i == FirstMatch(chain, key)
                  head == SubSeq(chain, 1, i - 1)
                  tail == SubSeq(chain, i, Len(chain))
              IN  [chain |-> head \o Tail(tail), removed |-> TRUE]
         ELSE [chain |-> chain, removed |-> FALSE]

----------------------------------------------------------------------------
\* Prime sizing

\* (number as f32).sqrt().ceil(): the least s with s * s >= number.  The
\* conversion and the rounded square root are exact for number < 2^23.
CeilSqrt(number) ==
    CHOOSE s \in 0..number : s * s >= number /\ \A t \in 0..(s - 1) : t * t < number

\* is_prime: even numbers are rejected; then trial division by every i in
\* the half-open range 3..closest_sqrt_integer.
IsPrime(number) ==
    IF number % 2 = 0
    THEN FALSE
    ELSE \A i \in 3..(CeilSqrt(number) - 1) : number % i # 0

\* find_next_prime: advance by 2 until is_prime accepts.
RECURSIVE FindNextPrime(_)
FindNextPrime(prime) ==
    IF IsPrime(prime) THEN prime ELSE FindNextPrime(prime + 2)

----------------------------------------------------------------------------
\* TrashMap

\* make_buckets: count empty chains.
MakeBuckets(count) == [i \in 1..count |-> <<>>]

\* TrashMap::hash: hasher.finish() % len.
Hash(len, key) == hashval[key] % len

\* The load factor compared with 1.0 in place of the threshold.
LoadFactorAboveOne(elems, len) == elems > len

\* compute_load_factor() > TRASH_MAP_LOAD_FACTOR_THRESH.  Both conversions
\* to f32 and the comparison of the rounded quotient with 0.75 are exact
\* for counts below 2^23.
LoadFactorAboveThresh(elems, len) == elems * THRESH_DEN > len * THRESH_NUM

\* insert_into_buckets hashing against the start size, not buckets.len().
InsertIntoBucketsStaleLen(bs, key, value) ==
    [bs EXCEPT ![Hash(TRASH_MAP_START_SIZE, key) + 1] = BucketInsert(@, key, value)]

\* insert_into_buckets: Bucket::insert into the bucket the key hashes to.
InsertIntoBuckets(bs, key, value) ==
    [bs EXCEPT ![Hash(Len(bs), key) + 1] = BucketInsert(@, key, value)]

\* iter: the chains concatenated in bucket-array order.
RECURSIVE IterFrom(_, _)
IterFrom(bs, i) ==
    IF i > Len(bs) THEN <<>> ELSE bs[i] \o IterFrom(bs, i + 1)

Iter(bs) == IterFrom(bs, 1)

\* The loop of grow: insert_into_buckets for each pair, in order.
RECURSIVE ReinsertAll(_, _)
ReinsertAll(bs, pairs) ==
    IF pairs = <<>>
    THEN bs
    ELSE ReinsertAll(InsertIntoBuckets(bs, Head(pairs)[1], Head(pairs)[2]),
                     Tail(pairs))

\* The bucket count of a grow that skips find_next_prime.
NewSizeNoPrime(len) == len * 2 + 1

\* The bucket count of a grow that starts its search at 2 * len + 3.
NewSizeSkipsFirst(len) == FindNextPrime(len * 2 + 3)

\* The bucket count grow allocates.
NewSize(len) == FindNextPrime(len * 2 + 1)

\* grow whose re-insertion misses the first bucket of the old array.
GrowSkipsFirstBucket(bs) ==
    ReinsertAll(MakeBuckets(NewSize(Len(bs))), IterFrom(bs, 2))

\* grow: a fresh array of the next prime size, filled by re-inserting the
\* pairs of the old array in iteration order.
Grow(bs) == ReinsertAll(MakeBuckets(NewSize(Len(bs))), Iter(bs))

\* TrashMap::insert counting new keys only, not overwrites.
TMInsertCountsNewOnly(bs, elems, key, value) ==
    LET b1 == InsertIntoBuckets(bs, key, value)
        e1 == IF BucketGet(bs[Hash(Len(bs), key) + 1], key) = None
              THEN elems + 1
              ELSE elems
        grew == LoadFactorAboveThresh(e1, Len(b1))
    IN  [buckets |-> IF grew THEN Grow(b1) ELSE b1,
         elements |-> e1,
         grew |-> grew]

\* TrashMap::insert checking the load factor before it counts the element.
TMInsertChecksBeforeIncrement(bs, elems, key, value) ==
    LET b1 == InsertIntoBuckets(bs, key, value)
        grew == LoadFactorAboveThresh(elems, Len(b1))
    IN  [buckets |-> IF grew THEN Grow(b1) ELSE b1,
         elements |-> elems + 1,
         grew |-> grew]

\* TrashMap::insert
TMInsert(bs, elems, key, value) ==
    LET b1 == InsertIntoBuckets(bs, key, value)
        e1 == elems + 1
        grew == LoadFactorAboveThresh(e1, Len(b1))
    IN  [buckets |-> IF grew THEN Grow(b1) ELSE b1,
         elements |-> e1,
         grew |-> grew]

\* TrashMap::remove decrementing whatever the bucket reports.
TMRemoveAlwaysDecrements(bs, elems, key) ==
    LET h == Hash(Len(bs), key) + 1
        r == BucketRemove(bs[h], key)
    IN  [buckets |-> [bs EXCEPT ![h] = r.chain],
         elements |-> elems - 1,
         removed |-> r.removed]

\* TrashMap::remove
TMRemove(bs, elems, key) ==
    LET h == Hash(Len(bs), key) + 1
        r == BucketRemove(bs[h], key)
    IN  [buckets |-> [bs EXCEPT ![h] = r.chain],
         elements |-> IF r.removed THEN elems - 1 ELSE elems,
         removed |-> r.removed]

\* TrashMap::get
TMGet(bs, key) == BucketGet(bs[Hash(Len(bs), key) + 1], key)

\* TrashMap::len
TMLen(elems) == elems

----------------------------------------------------------------------------
\* The state machine: one action per public method.

\* What a call leaves in last: its name and arguments, the value its key
\* had before it (insert), and what it returned or did.
Call(name, key, value, old, removed, got, grew) ==
    [name |-> name, key |-> key, value |-> value, old |-> old,
     removed |-> removed, got |-> got, grew |-> grew]

\* The keys of a sequence of pairs.
KeysOf(pairs) == [i \in 1..Len(pairs) |-> pairs[i][1]]

\* The hash functions of the key type.  Keys are only hashed and compared
\* for equality, so their names are interchangeable: it is enough to take
\* the hash functions that are non-decreasing in the key's name, the calls
\* below coming in every order.
HashFunctions ==
    {h \in [Keys -> HashVals] : \A j, k \in Keys : j < k => h[j] <= h[k]}

\* No test scenario is running.
NoScenario == [phase |-> "free", n |-> 0]

\* TrashMap::new()
Init ==
    /\ buckets = MakeBuckets(TRASH_MAP_START_SIZE)
    /\ elements = 0
    /\ hashval \in HashFunctions
    /\ last = Call("new", 0, 0, None, FALSE, None, FALSE)
    /\ shadow = [k \in Keys |-> None]
    /\ firstIns = <<>>
    /\ placed = <<>>
    /\ scen = NoScenario

Insert(k, v) ==
    /\ elements < MaxElements
    /\ LET r == TMInsert(buckets, elements, k, v)
       IN  /\ buckets' = r.buckets
           /\ elements' = r.elements
           /\ last' = Call("insert", k, v, shadow[k], FALSE, None, r.grew)
           /\ shadow' = [shadow EXCEPT ![k] = v]
           /\ firstIns' = IF shadow[k] = None THEN Append(firstIns, k) ELSE firstIns
           /\ placed' = IF r.grew
                        THEN KeysOf(Iter(InsertIntoBuckets(buckets, k, v)))
                        ELSE IF shadow[k] = None THEN Append(placed, k) ELSE placed
    /\ UNCHANGED <<hashval, scen>>

Remove(k) ==
    /\ LET r == TMRemove(buckets, elements, k)
       IN  /\ buckets' = r.buckets
           /\ elements' = r.elements
           /\ last' = Call("remove", k, 0, None, r.removed, None, FALSE)
    /\ shadow' = [shadow EXCEPT ![k] = None]
    /\ firstIns' = Without(firstIns, k)
    /\ placed' = Without(placed, k)
    /\ UNCHANGED <<hashval, scen>>

Get(k) ==
    /\ last' = Call("get", k, 0, None, FALSE, TMGet(buckets, k), FALSE)
    /\ UNCHANGED <<buckets, elements, hashval, shadow, firstIns, placed, scen>>

LenCall ==
    /\ last' = Call("len", 0, 0, None, FALSE, TMLen(elements), FALSE)
    /\ UNCHANGED <<buckets, elements, hashval, shadow, firstIns, placed, scen>>

IterCall ==
    /\ last' = Call("iter", 0, 0, None, FALSE, Len(Iter(buckets)), FALSE)
    /\ UNCHANGED <<buckets, elements, hashval, shadow, firstIns, placed, scen>>

Next ==
    \/ \E k \in Keys, v \in Values : Insert(k, v)
    \/ \E k \in Keys : Remove(k)
    \/ \E k \in Keys : Get(k)
    \/ LenCall
    \/ IterCall

Spec == Init /\ [][Next]_vars

----------------------------------------------------------------------------
\* The scenario of test_insert_collsions (src/src/tests.rs), for any number
\* n of keys: insert the distinct keys 1..n with value (), remove each of
\* them once, in any order, then remove one of them again.

ScenKeys == 1..MaxElements

\* The value (): the test's map is a TrashMap<i32, ()>.
Unit == 1

ScenInit ==
    /\ buckets = MakeBuckets(TRASH_MAP_START_SIZE)
    /\ elements = 0
    /\ hashval \in [ScenKeys -> HashVals]
    /\ last = Call("new", 0, 0, None, FALSE, None, FALSE)
    /\ shadow = [k \in ScenKeys |-> None]
    /\ firstIns = <<>>
    /\ placed = <<>>
    /\ scen = [phase |-> "insert", n |-> 0]

\* for i in 0..n { map.insert(i, ()); }
ScenInsert ==
    /\ scen.phase = "insert"
    /\ scen.n < MaxElements
    /\ LET k == scen.n + 1
           r == TMInsert(buckets, elements, k, Unit)
       IN  /\ buckets' = r.buckets
           /\ elements' = r.elements
           /\ last' = Call("insert", k, Unit, shadow[k], FALSE, None, r.grew)
           /\ shadow' = [shadow EXCEPT ![k] = Unit]
           /\ firstIns' = Append(firstIns, k)
           /\ placed' = IF r.grew
                        THEN KeysOf(Iter(InsertIntoBuckets(buckets, k, Unit)))
                        ELSE Append(placed, k)
           /\ scen' = [scen EXCEPT !.n = k]
    /\ UNCHANGED hashval

\* What remove(k) does to the state, whatever the phase.
ScenRemoveCall(k) ==
    /\ LET r == TMRemove(buckets, elements, k)
       IN  /\ buckets' = r.buckets
           /\ elements' = r.elements
           /\ last' = Call("remove", k, 0, None, r.removed, None, FALSE)
    /\ shadow' = [shadow EXCEPT ![k] = None]
    /\ firstIns' = Without(firstIns, k)
    /\ placed' = Without(placed, k)
    /\ UNCHANGED hashval

\* for i in 0..n { assert!(map.remove(&i)); }  each key once
ScenRemove(k) ==
    /\ scen.phase \in {"insert", "remove"}
    /\ k \in 1..scen.n
    /\ shadow[k] # None
    /\ ScenRemoveCall(k)
    /\ scen' = [scen EXCEPT !.phase = "remove"]

\* assert!(!map.remove(&0));  once every key has been removed
ScenRemoveAgain(k) ==
    /\ scen.phase = "remove"
    /\ k \in 1..scen.n
    /\ \A j \in ScenKeys : shadow[j] = None
    /\ ScenRemoveCall(k)
    /\ scen' = [scen EXCEPT !.phase = "again"]

ScenNext ==
    \/ ScenInsert
    \/ \E k \in ScenKeys : ScenRemove(k)
    \/ \E k \in ScenKeys : ScenRemoveAgain(k)

SpecScenario == ScenInit /\ [][ScenNext]_vars

----------------------------------------------------------------------------
\* Properties

\* The keys present: inserted and not removed since.
PresentKeys == {k \in DOMAIN shadow : shadow[k] # None}

\* The position of key k in the sequence of keys ks (0 when it is not there).
PosIn(ks, k) ==
    IF \E i \in 1..Len(ks) : ks[i] = k
    THEN CHOOSE i \in 1..Len(ks) : ks[i] = k
    ELSE 0

\* How many pairs of the whole map have key k.
CountKey(bs, k) == Cardinality(Matches(Iter(bs), k))

\* A number is prime.
TruePrime(n) == n > 1 /\ \A d \in 2..(n - 1) : n % d # 0

\* C1: after any sequence of insert and remove calls, len() equals the
\* number of distinct keys present, which is the sum of the chain lengths.
C1_LenCountsPresentKeys ==
    /\ TMLen(elements) = Cardinality(PresentKeys)
    /\ TMLen(elements) = Len(Iter(buckets))

\* C2: get(k) returns the value of the most recent insert of k when k was
\* inserted and not removed since, and None otherwise, across resizes.
C2_GetReturnsLastInsert ==
    /\ \A k \in Keys : TMGet(buckets, k) = shadow[k]
    /\ last.name = "get" => last.got = shadow[last.key]

\* C2 witness: after a resize, with some key removed, a get has returned the
\* value of a present key that moved to another bucket.
C2_Witness ==
    /\ last.name = "get"
    /\ last.got # None
    /\ Len(buckets) > TRASH_MAP_START_SIZE
    /\ Hash(Len(buckets), last.key) # Hash(TRASH_MAP_START_SIZE, last.key)
    /\ \E j \in Keys : shadow[j] = None

\* C3: when remove(k) returns true, get(k) is absent right after and len()
\* is one less than before; a second remove(k) right after returns false
\* and leaves len() unchanged.
C3_RemoveThenAbsent ==
    [][(last'.name = "remove" /\ last'.removed) =>
        LET k == last'.key
            again == TMRemove(buckets', elements', k)
        IN  /\ TMLen(elements') = TMLen(elements) - 1
            /\ TMGet(buckets', k) = None
            /\ ~again.removed
            /\ TMLen(again.elements) = TMLen(elements')]_vars

\* C3 witness: a remove has returned true while other keys share the map.
C3_Witness ==
    /\ last.name = "remove"
    /\ last.removed
    /\ Cardinality(PresentKeys) >= 2

\* C4: remove(k) returns true exactly when k was present just before the
\* call, and after a true result k is no longer in the map.
C4_RemoveTrueIffPresent ==
    [][last'.name = "remove" =>
        /\ last'.removed <=> (shadow[last'.key] # None)
        /\ last'.removed => CountKey(buckets', last'.key) = 0]_vars

\* C4 witness: a remove has returned true for a key that a resize had moved
\* to another bucket.
C4_Witness ==
    /\ last.name = "remove"
    /\ last.removed
    /\ Len(buckets) > TRASH_MAP_START_SIZE
    /\ Hash(Len(buckets), last.key) # Hash(TRASH_MAP_START_SIZE, last.key)

\* C5: inserting n distinct keys into a new map and removing each once
\* makes every one of the n removes return true, a further remove of one of
\* them return false, and leaves len() = 0.
C5_EveryRemoveSucceeds ==
    /\ scen.phase = "remove" => (last.name = "remove" /\ last.removed)
    /\ (scen.phase = "remove" /\ PresentKeys = {}) => TMLen(elements) = 0
    /\ scen.phase = "again" =>
           (last.name = "remove" /\ ~last.removed /\ TMLen(elements) = 0)

\* C5 witness: the scenario has run to its end through two resizes, with
\* two of its keys in one bucket of the first array.
C5_Witness ==
    /\ scen.phase = "again"
    /\ Len(buckets) > 2 * TRASH_MAP_START_SIZE + 1
    /\ \E j, k \in 1..scen.n :
           j # k /\ Hash(TRASH_MAP_START_SIZE, j) = Hash(TRASH_MAP_START_SIZE, k)

\* C6: an insert of a present key with a different value leaves exactly one
\* pair with that key in the whole map, holding the second value, also when
\* the insert resizes.
C6_OverwriteLeavesOnePair ==
    [][(last'.name = "insert" /\ shadow[last'.key] \notin {None, last'.value}) =>
        /\ CountKey(buckets', last'.key) = 1
        /\ \A i \in Matches(Iter(buckets'), last'.key) :
               Iter(buckets')[i][2] = last'.value]_vars

\* C6 witness: an insert has overwritten a different value and resized.
C6_Witness ==
    /\ last.name = "insert"
    /\ last.old \notin {None, last.value}
    /\ last.grew

\* C7: an insert that overwrites a present key leaves every two keys that
\* were present before it in the same relative order in iter().
C7_OverwriteKeepsOrder ==
    [][(last'.name = "insert" /\ shadow[last'.key] # None) =>
        \A a, b \in PresentKeys :
            (PosIn(KeysOf(Iter(buckets)), a) < PosIn(KeysOf(Iter(buckets)), b))
            <=> (PosIn(KeysOf(Iter(buckets')), a) < PosIn(KeysOf(Iter(buckets')), b))]_vars

\* C8: right after every insert the load factor is at most 0.75:
\* 4 * elements <= 3 * buckets.len(), the one grow of the insert sufficing.
C8_LoadFactorAfterInsert ==
    last.name = "insert" => elements * THRESH_DEN <= Len(buckets) * THRESH_NUM

\* C8 witness: an insert has grown the array a second time.
C8_Witness ==
    /\ last.name = "insert"
    /\ last.grew
    /\ Len(buckets) > 2 * TRASH_MAP_START_SIZE + 1

\* C9: the bucket array length is always a prime number >= 3, and it is 3
\* after new().
C9_BucketCountPrime ==
    /\ Len(buckets) >= TRASH_MAP_START_SIZE
    /\ TruePrime(Len(buckets))
    /\ last.name = "new" => Len(buckets) = TRASH_MAP_START_SIZE

\* C9 witness: the array has been grown twice and holds two keys.
C9_Witness ==
    /\ Len(buckets) > 2 * TRASH_MAP_START_SIZE + 1
    /\ Cardinality(PresentKeys) >= 2

\* Every chain goes from the key that is latest in ks to the earliest.
ChainsLatestFirst(ks) ==
    \A b \in 1..Len(buckets) :
        \A i, j \in 1..Len(buckets[b]) :
            i < j => PosIn(ks, buckets[b][i][1]) > PosIn(ks, buckets[b][j][1])

\* C10: within each bucket the chain is ordered by first insertion, the key
\* first inserted later coming earlier, after any inserts and removes,
\* resizes included.
C10_ChainOrderByFirstInsertion == ChainsLatestFirst(firstIns)

\* C10 as amended: within each bucket the chain is ordered by placement,
\* the key placed later coming earlier; a key is placed by its first
\* insertion and again, in the old array's iteration order, by every grow.
C10_ChainOrderByPlacement == ChainsLatestFirst(placed)

\* C10 witness: after a resize a chain of two keys or more is not in the
\* order of first insertion.
C10_Witness ==
    /\ Len(buckets) > TRASH_MAP_START_SIZE
    /\ \E b \in 1..Len(buckets) : Len(buckets[b]) >= 2
    /\ ~ChainsLatestFirst(firstIns)

\* The least prime number that is at least n.
RECURSIVE SmallestPrimeAtLeast(_)
SmallestPrimeAtLeast(n) ==
    IF TruePrime(n) THEN n ELSE SmallestPrimeAtLeast(n + 1)

\* The set of the pairs of the whole map.
PairSet(bs) == LET it == Iter(bs) IN {it[i] : i \in 1..Len(it)}

\* C11: every insert increases the element counter by exactly 1, whether
\* its key is new or already present.
C11_InsertAlwaysCounts ==
    [][last'.name = "insert" => TMLen(elements') = TMLen(elements) + 1]_vars

\* C11 witness: an insert has overwritten a present key without resizing,
\* and the counter is ahead of the number of keys present.
C11_Witness ==
    /\ last.name = "insert"
    /\ last.old # None
    /\ ~last.grew
    /\ TMLen(elements) > Cardinality(PresentKeys)

\* C12: when grow runs with old bucket count c, the new bucket count is
\* the smallest prime number p with p >= 2 * c + 1.
C12_GrowToNextPrime ==
    [][(last'.name = "insert" /\ last'.grew) =>
        Len(buckets') = SmallestPrimeAtLeast(2 * Len(buckets) + 1)]_vars

\* C12 witness: grow has run on the 7-bucket array, whose first candidate
\* 15 is not prime.
C12_Witness ==
    /\ last.name = "insert"
    /\ last.grew
    /\ Len(buckets) > 2 * (2 * TRASH_MAP_START_SIZE + 1) + 1

\* C13: grow changes where pairs are stored, not what is stored: the pairs
\* after it are the pairs before it, none lost, duplicated or altered, and
\* the element counter is what insert had made it before grow.
C13_GrowKeepsPairs ==
    [][(last'.name = "insert" /\ last'.grew) =>
        LET before == InsertIntoBuckets(buckets, last'.key, last'.value)
            after == PairSet(buckets')
        IN  /\ after = PairSet(before)
            /\ Len(Iter(buckets')) = Len(Iter(before))
            /\ \A b \in 1..Len(before) : \A i \in 1..Len(before[b]) :
                   before[b][i] \in after
            /\ elements' = elements + 1]_vars

\* C13 witness: grow has moved three pairs, two of them out of one bucket
\* of the old array into different buckets of the new one.
C13_Witness ==
    /\ last.name = "insert"
    /\ last.grew
    /\ Cardinality(PresentKeys) >= 3
    /\ \E j, k \in PresentKeys :
           /\ j # k
           /\ Hash(TRASH_MAP_START_SIZE, j) = Hash(TRASH_MAP_START_SIZE, k)
           /\ Hash(Len(buckets), j) # Hash(Len(buckets), k)

\* C14: an insert runs grow exactly when the load factor, the counter
\* incremented, is above 0.75, and then once; the bucket count changes only
\* in an insert, only to a larger value, and no other call changes it.
C14_GrowOnlyInInsert ==
    [][/\ last'.name = "insert" =>
              /\ last'.grew <=>
                     ((elements + 1) * THRESH_DEN > Len(buckets) * THRESH_NUM)
              /\ last'.grew => Len(buckets') = NewSize(Len(buckets))
              /\ ~last'.grew => Len(buckets') = Len(buckets)
       /\ last'.name # "insert" => Len(buckets') = Len(buckets)
       /\ Len(buckets') # Len(buckets) => Len(buckets') > Len(buckets)]_vars

\* C14 witness: after two grows a remove has emptied the map, and the
\* array has kept its size.
C14_Witness ==
    /\ last.name = "remove"
    /\ last.removed
    /\ PresentKeys = {}
    /\ Len(buckets) > 2 * TRASH_MAP_START_SIZE + 1

\* C15: each bucket's chain holds at most one pair per key.
C15_OnePairPerKeyInChain ==
    \A b \in 1..Len(buckets) :
        \A k \in DOMAIN shadow : Cardinality(Matches(buckets[b], k)) <= 1

\* C15 witness: after a resize and an overwrite a chain holds two keys.
C15_Witness ==
    /\ Len(buckets) > TRASH_MAP_START_SIZE
    /\ last.name = "insert"
    /\ last.old # None
    /\ \E b \in 1..Len(buckets) : Len(buckets[b]) >= 2

\* C16: when remove(k) finds k, its chain afterwards is the chain before
\* without the pair of k, the other pairs unchanged and in the same order,
\* and every other bucket is untouched.
C16_RemoveSplicesOnePair ==
    [][(last'.name = "remove" /\ last'.removed) =>
        LET k == last'.key
            h == Hash(Len(buckets), k) + 1
        IN  /\ Cardinality(Matches(buckets[h], k)) = 1
            /\ buckets'[h] = SelectSeq(buckets[h], LAMBDA pair : pair[1] # k)
            /\ Len(buckets') = Len(buckets)
            /\ \A b \in 1..Len(buckets) : b # h => buckets'[b] = buckets[b]]_vars

\* C16 witness: after a resize a remove has taken a pair out of a chain
\* that still holds two pairs.
C16_Witness ==
    /\ last.name = "remove"
    /\ last.removed
    /\ Len(buckets) > TRASH_MAP_START_SIZE
    /\ Len(buckets[Hash(Len(buckets), last.key) + 1]) >= 2

\* C17: remove(k) of a key that is not present returns false and leaves
\* every chain, the bucket count and the element counter as they were; the
\* bucket it indexes exists.
C17_RemoveAbsentChangesNothing ==
    [][(last'.name = "remove" /\ shadow[last'.key] = None) =>
        /\ ~last'.removed
        /\ buckets' = buckets
        /\ elements' = elements
        /\ Hash(Len(buckets), last'.key) + 1 \in 1..Len(buckets)]_vars

\* C17 witness: a remove has returned false after scanning a chain that
\* holds other keys.
C17_Witness ==
    /\ last.name = "remove"
    /\ ~last.removed
    /\ Len(buckets[Hash(Len(buckets), last.key) + 1]) >= 2

\* C18: every stored pair is in the bucket its key hashes to under the
\* current bucket count, so each key is at most once in the whole table.
C18_PairsInTheirBucket ==
    /\ \A b \in 1..Len(buckets) : \A i \in 1..Len(buckets[b]) :
           Hash(Len(buckets), buckets[b][i][1]) + 1 = b
    /\ \A k \in DOMAIN shadow : CountKey(buckets, k) <= 1

\* C18 witness: an insert has grown the array and a key present is in
\* another bucket than the one it had in the first array.
C18_Witness ==
    /\ last.name = "insert"
    /\ last.grew
    /\ \E k \in PresentKeys :
           Hash(Len(buckets), k) # Hash(TRASH_MAP_START_SIZE, k)

\* C19: the element counter is never below the number of pairs stored, so
\* the decrement of remove never runs at 0.
C19_CounterCoversPairs ==
    /\ elements >= Len(Iter(buckets))
    /\ elements >= 0
    /\ \A k \in DOMAIN shadow :
           TMRemove(buckets, elements, k).removed => elements >= 1

\* C19 witness: a remove has taken the counter down to 0.
C19_Witness ==
    /\ last.name = "remove"
    /\ last.removed
    /\ elements = 0

\* ---------------------------------------------------------------------
\* is_prime and find_next_prime as pure functions of an odd number.

\* The largest number handed to is_prime and find_next_prime.
MaxNumber == 127

\* The odd numbers from 3 on, the candidates grow hands over.
OddNumbers == {n \in 3..MaxNumber : n % 2 = 1}

\* A call of one of the two functions: its argument and what it returned.
PrimeCall(name, number, prime, next) ==
    [name |-> name, number |-> number, prime |-> prime, next |-> next]

\* An odd number has been chosen and no function called on it yet.
PrimeInit ==
    /\ buckets = MakeBuckets(TRASH_MAP_START_SIZE)
    /\ elements = 0
    /\ hashval = [k \in Keys |-> 0]
    /\ last \in {PrimeCall("chosen", n, FALSE, 0) : n \in OddNumbers}
    /\ shadow = [k \in Keys |-> None]
    /\ firstIns = <<>>
    /\ placed = <<>>
    /\ scen = NoScenario

\* is_prime(number)
IsPrimeCall ==
    /\ last' = PrimeCall("is_prime", last.number, IsPrime(last.number), 0)
    /\ UNCHANGED <<buckets, elements, hashval, shadow, firstIns, placed, scen>>

\* find_next_prime(number)
FindNextPrimeCall ==
    /\ last' = PrimeCall("find_next_prime", last.number, FALSE,
                         FindNextPrime(last.number))
    /\ UNCHANGED <<buckets, elements, hashval, shadow, firstIns, placed, scen>>

PrimeNext == IsPrimeCall \/ FindNextPrimeCall

SpecPrime == PrimeInit /\ [][PrimeNext]_vars

\* C20: for every odd n >= 3, is_prime(n) rejects n whenever some d with
\* 3 <= d <= ceil(sqrt(n)) divides n, so is_prime(n) is true exactly when n
\* is prime, and find_next_prime(n) is the smallest prime >= n.
C20_IsPrimeIffPrime ==
    /\ last.name = "is_prime" =>
           /\ (\E d \in 3..CeilSqrt(last.number) : last.number % d = 0)
                  => ~last.prime
           /\ last.prime <=> TruePrime(last.number)
    /\ last.name = "find_next_prime" =>
           last.next = SmallestPrimeAtLeast(last.number)

====
